---- MODULE Spec2Model ----
(***************************************************************************)
(* Model of the blog application in src/main.py: the four tables (users,   *)
(* blog_posts, comments, messages), the Flask-Login session of each        *)
(* client, the admin_only gate and every route handler.  Each handler is   *)
(* one action; the HTTP response of the last handled request is kept in    *)
(* resp.  Spec is one browser issuing requests one after the other;        *)
(* HistSpec is Spec with the history of the deleted post identifiers;      *)
(* RaceSpec is two browsers whose register requests interleave between     *)
(* the existence check and the commit.                                     *)
(***************************************************************************)
EXTENDS Integers, Naturals, Sequences, FiniteSets, TLC

VARIABLES users, posts, comments, messages, session, resp, deleted, pending

vars == <<users, posts, comments, messages, session, resp, deleted, pending>>

store == <<users, posts, comments, messages>>

(***************************************************************************)
(* Bounds of the model and input alphabets.                                *)
(***************************************************************************)
MaxPostId == 2
MaxComments == 1
MaxMessages == 1

Clients == {"c1", "c2"}
Browser == {"c1"}
Emails == {"a@x.com", "b@x.com"}
Passwords == {"pw", "pw2"}
RegisterPasswords == {"pw"}
Names == {"Alice"}
Salts == {"s1"}
Titles == {"T1", "T2"}
Texts == {"x"}
PostIds == 1..MaxPostId

(***************************************************************************)
(* Program constants.                                                      *)
(***************************************************************************)
AdminId == 1
NoUser == 0
NULL == 0

NoForm == [none |-> TRUE]
NoReq == [none |-> TRUE]

RegisterForm == [email : Emails, password : RegisterPasswords, name : Names]
LoginForm == [email : Emails, password : Passwords]
CreatePostForm ==
    {[title |-> t, subtitle |-> x, body |-> x, img_url |-> x, project_url |-> x] :
        t \in Titles, x \in Texts}
CommentForm == [comment_text : Texts]
ContactForm == {[name |-> "Bob", email |-> "bob@x.com", phone |-> "1", message |-> "hi"]}

(***************************************************************************)
(* Persistence layer (SQLite through SQLAlchemy).                          *)
(***************************************************************************)
Max(S) == CHOOSE m \in S : \A n \in S : n <= m

\* INTEGER PRIMARY KEY without AUTOINCREMENT: the new rowid is the largest
\* rowid of the table plus one, 1 for an empty table.
NextId(T) == IF T = {} THEN 1 ELSE Max({r.id : r \in T}) + 1

get_or_404(T, id) == {r \in T : r.id = id}

Ids(T) == {r.id : r \in T}

\* unique=True on users.email
UserUniqueViolation(U, rec) == \E u \in U : u.id # rec.id /\ u.email = rec.email

PostUniqueViolation_Off(P, rec) == FALSE

\* unique=True on blog_posts.title
PostUniqueViolation(P, rec) == \E p \in P : p.id # rec.id /\ p.title = rec.title

SelectUserByEmail(U, email) == {u \in U : u.email = email}

Scalar(rows) == CHOOSE r \in rows : \A q \in rows : r.id <= q.id

(***************************************************************************)
(* Credential subsystem (werkzeug.security), symbolic: the digest is an    *)
(* injective one-way term over the salt and the plaintext.                 *)
(***************************************************************************)
Pbkdf2(salt, password) == <<"pbkdf2:sha256", salt, password>>

generate_password_hash(password, salt) ==
    [method |-> "pbkdf2:sha256", salt |-> salt, digest |-> Pbkdf2(salt, password)]

check_password_hash_Any(pwhash, password) == TRUE

check_password_hash(pwhash, password) == pwhash.digest = Pbkdf2(pwhash.salt, password)

(***************************************************************************)
(* Session / identity (Flask-Login).                                       *)
(***************************************************************************)
load_user(user_id) == get_or_404(users, user_id)

is_authenticated(c) == session[c] # NoUser

login_user(c, user_id) == [session EXCEPT ![c] = user_id]

logout_user_Keep(c) == session

logout_user(c) == [session EXCEPT ![c] = NoUser]

AdminGate_AnyUser(c) == is_authenticated(c)

\* admin_only: 403 unless the current user is authenticated and has id 1.
AdminGate(c) ==
    IF ~is_authenticated(c) THEN FALSE
    ELSE IF session[c] # AdminId THEN FALSE
    ELSE TRUE

Response(c, op, id, form, status, to, flash) ==
    [client |-> c, op |-> op, id |-> id, form |-> form, user |-> session[c],
     status |-> status, to |-> to, flash |-> flash]

Init ==
    /\ users = {}
    /\ posts = {}
    /\ comments = {}
    /\ messages = {}
    /\ session = [c \in Clients |-> NoUser]
    /\ resp = [client |-> "c1", op |-> "start", id |-> 0, form |-> NoForm, user |-> NoUser,
               status |-> "OK", to |-> "", flash |-> ""]
    /\ deleted = {}
    /\ pending = [c \in Clients |-> NoReq]

(***************************************************************************)
(* Routes.                                                                 *)
(***************************************************************************)
FlashAlreadySignedUp == "You've already signed up with that email, log in instead!"
FlashNoEmail == "That email does not exist, please try again."
FlashBadPassword == "Password incorrect, please try again."
FlashLoginToComment == "You need to login or register to comment."

RegisterEmailTaken_Never(U, email) == FALSE

RegisterEmailTaken(U, email) == SelectUserByEmail(U, email) # {}

NewUser(U, form, salt) ==
    [id |-> NextId(U), email |-> form.email, name |-> form.name,
     password |-> generate_password_hash(form.password, salt)]

register(c, submit, form, salt) ==
    /\ pending[c] = NoReq
    /\ IF ~submit
       THEN /\ resp' = Response(c, "register", 0, NoForm, "OK", "register.html", "")
            /\ UNCHANGED <<users, session>>
       ELSE IF RegisterEmailTaken(users, form.email)
       THEN /\ resp' = Response(c, "register", 0, form, "Redirect", "login",
                                FlashAlreadySignedUp)
            /\ UNCHANGED <<users, session>>
       ELSE LET new_user == NewUser(users, form, salt)
            IN IF UserUniqueViolation(users, new_user)
               THEN /\ resp' = Response(c, "register", 0, form, "ServerError", "", "")
                    /\ UNCHANGED <<users, session>>
               ELSE /\ users' = users \cup {new_user}
                    /\ session' = login_user(c, new_user.id)
                    /\ resp' = Response(c, "register", 0, form, "Redirect", "get_all_posts", "")
    /\ UNCHANGED <<posts, comments, messages, deleted, pending>>

login(c, submit, form) ==
    /\ pending[c] = NoReq
    /\ IF ~submit
       THEN /\ resp' = Response(c, "login", 0, NoForm, "OK", "login.html", "")
            /\ UNCHANGED session
       ELSE LET rows == SelectUserByEmail(users, form.email)
            IN IF rows = {}
               THEN /\ resp' = Response(c, "login", 0, form, "Redirect", "login", FlashNoEmail)
                    /\ UNCHANGED session
               ELSE IF ~check_password_hash(Scalar(rows).password, form.password)
               THEN /\ resp' = Response(c, "login", 0, form, "Redirect", "login", FlashBadPassword)
                    /\ UNCHANGED session
               ELSE /\ session' = login_user(c, Scalar(rows).id)
                    /\ resp' = Response(c, "login", 0, form, "Redirect", "get_all_posts", "")
    /\ UNCHANGED <<users, posts, comments, messages, deleted, pending>>

logout(c) ==
    /\ pending[c] = NoReq
    /\ session' = logout_user(c)
    /\ resp' = Response(c, "logout", 0, NoForm, "Redirect", "get_all_posts", "")
    /\ UNCHANGED <<users, posts, comments, messages, deleted, pending>>

get_all_posts(c) ==
    /\ pending[c] = NoReq
    /\ resp' = Response(c, "get_all_posts", 0, NoForm, "OK", "index.html", "")
    /\ UNCHANGED <<users, posts, comments, messages, session, deleted, pending>>

\* how_it_works and about render a template and touch nothing.
static_page(c, page) ==
    /\ pending[c] = NoReq
    /\ resp' = Response(c, page, 0, NoForm, "OK", page, "")
    /\ UNCHANGED <<users, posts, comments, messages, session, deleted, pending>>

NewComment(C, form, author_id, post_id) ==
    [id |-> NextId(C), text |-> form.comment_text, author_id |-> author_id, post_id |-> post_id]

show_post(c, post_id, submit, form) ==
    /\ pending[c] = NoReq
    /\ (get_or_404(posts, post_id) # {} /\ submit /\ is_authenticated(c))
          => Cardinality(comments) < MaxComments
    /\ IF get_or_404(posts, post_id) = {}
       THEN /\ resp' = Response(c, "show_post", post_id, NoForm, "NotFound", "", "")
            /\ UNCHANGED comments
       ELSE IF ~submit
       THEN /\ resp' = Response(c, "show_post", post_id, NoForm, "OK", "post.html", "")
            /\ UNCHANGED comments
       ELSE IF ~is_authenticated(c)
       THEN /\ resp' = Response(c, "show_post", post_id, form, "Redirect", "login",
                                FlashLoginToComment)
            /\ UNCHANGED comments
       ELSE /\ comments' = comments \cup {NewComment(comments, form, session[c], post_id)}
            /\ resp' = Response(c, "show_post", post_id, form, "OK", "post.html", "")
    /\ UNCHANGED <<users, posts, messages, session, deleted, pending>>

NewPost(P, form, author_id) ==
    [id |-> NextId(P), author_id |-> author_id, title |-> form.title,
     subtitle |-> form.subtitle, date |-> "today", body |-> form.body,
     img_url |-> form.img_url, project_url |-> form.project_url]

add_new_post(c, submit, form) ==
    /\ pending[c] = NoReq
    /\ (AdminGate(c) /\ submit /\ ~PostUniqueViolation(posts, NewPost(posts, form, session[c])))
          => NextId(posts) <= MaxPostId
    /\ IF ~AdminGate(c)
       THEN /\ resp' = Response(c, "add_new_post", 0, NoForm, "Forbidden", "", "")
            /\ UNCHANGED posts
       ELSE IF ~submit
       THEN /\ resp' = Response(c, "add_new_post", 0, NoForm, "OK", "make-post.html", "")
            /\ UNCHANGED posts
       ELSE LET new_post == NewPost(posts, form, session[c])
            IN IF PostUniqueViolation(posts, new_post)
               THEN /\ resp' = Response(c, "add_new_post", 0, form, "ServerError", "", "")
                    /\ UNCHANGED posts
               ELSE /\ posts' = posts \cup {new_post}
                    /\ resp' = Response(c, "add_new_post", 0, form, "Redirect", "get_all_posts", "")
    /\ UNCHANGED <<users, comments, messages, session, deleted, pending>>

\* The fields edit_post assigns; date and project_url keep their values.
EditedPost(post, form, author_id) ==
    [post EXCEPT !.title = form.title, !.subtitle = form.subtitle,
                 !.img_url = form.img_url, !.author_id = author_id, !.body = form.body]

\* edit_post carries no admin_only decorator.
EditGate(c) == TRUE

edit_post(c, post_id, submit, form) ==
    /\ pending[c] = NoReq
    /\ IF ~EditGate(c)
       THEN /\ resp' = Response(c, "edit_post", post_id, NoForm, "Forbidden", "", "")
            /\ UNCHANGED posts
       ELSE IF get_or_404(posts, post_id) = {}
       THEN /\ resp' = Response(c, "edit_post", post_id, NoForm, "NotFound", "", "")
            /\ UNCHANGED posts
       ELSE IF ~submit
       THEN /\ resp' = Response(c, "edit_post", post_id, NoForm, "OK", "make-post.html", "")
            /\ UNCHANGED posts
       ELSE IF ~is_authenticated(c)
       \* post.author = current_user with the anonymous user object raises;
       \* nothing was committed.
       THEN /\ resp' = Response(c, "edit_post", post_id, form, "ServerError", "", "")
            /\ UNCHANGED posts
       ELSE LET post == Scalar(get_or_404(posts, post_id))
                edited == EditedPost(post, form, session[c])
            IN IF PostUniqueViolation(posts, edited)
               THEN /\ resp' = Response(c, "edit_post", post_id, form, "ServerError", "", "")
                    /\ UNCHANGED posts
               ELSE /\ posts' = (posts \ {post}) \cup {edited}
                    /\ resp' = Response(c, "edit_post", post_id, form, "Redirect", "show_post", "")
    /\ UNCHANGED <<users, comments, messages, session, deleted, pending>>

\* session.delete(post) with the default relationship cascade: the rows of
\* the comments collection are kept and their post_id is set to NULL.
DeleteCascade(C, post_id) ==
    {IF cm.post_id = post_id THEN [cm EXCEPT !.post_id = NULL] ELSE cm : cm \in C}

DbDeletePost_Keep(P, post_id) == P

DbDeletePost(P, post_id) == {p \in P : p.id # post_id}

delete_post(c, post_id) ==
    /\ pending[c] = NoReq
    /\ IF ~AdminGate(c)
       THEN /\ resp' = Response(c, "delete_post", post_id, NoForm, "Forbidden", "", "")
            /\ UNCHANGED <<posts, comments>>
       ELSE IF get_or_404(posts, post_id) = {}
       THEN /\ resp' = Response(c, "delete_post", post_id, NoForm, "NotFound", "", "")
            /\ UNCHANGED <<posts, comments>>
       ELSE /\ posts' = DbDeletePost(posts, post_id)
            /\ comments' = DeleteCascade(comments, post_id)
            /\ resp' = Response(c, "delete_post", post_id, NoForm, "Redirect", "get_all_posts", "")
    /\ UNCHANGED <<users, messages, session, pending>>

\* The date column defaults to datetime.now; the insertion stamp stands for it.
NewMessage(M, form) ==
    [id |-> NextId(M), name |-> form.name, email |-> form.email, phone |-> form.phone,
     message |-> form.message, date |-> NextId(M)]

contact(c, post, form) ==
    /\ pending[c] = NoReq
    /\ post => Cardinality(messages) < MaxMessages
    /\ IF post
       THEN /\ messages' = messages \cup {NewMessage(messages, form)}
            /\ resp' = Response(c, "contact", 0, form, "Redirect", "contact",
                                "Your message has been sent successfully!")
       ELSE /\ resp' = Response(c, "contact", 0, NoForm, "OK", "contact.html", "")
            /\ UNCHANGED messages
    /\ UNCHANGED <<users, posts, comments, session, deleted, pending>>

\* login_required sits inside admin_only and never rejects what the gate lets through.
admin_messages(c) ==
    /\ pending[c] = NoReq
    /\ IF ~AdminGate(c)
       THEN resp' = Response(c, "admin_messages", 0, NoForm, "Forbidden", "", "")
       ELSE IF ~is_authenticated(c)
       THEN resp' = Response(c, "admin_messages", 0, NoForm, "Unauthorized", "", "")
       ELSE resp' = Response(c, "admin_messages", 0, NoForm, "OK", "admin_messages.html", "")
    /\ UNCHANGED <<users, posts, comments, messages, session, deleted, pending>>

Requests ==
    \/ \E c \in Browser, submit \in BOOLEAN, form \in RegisterForm, salt \in Salts :
          register(c, submit, form, salt)
    \/ \E c \in Browser, submit \in BOOLEAN, form \in LoginForm : login(c, submit, form)
    \/ \E c \in Browser : logout(c)
    \/ \E c \in Browser : get_all_posts(c)
    \/ \E c \in Browser, page \in {"how_it_works.html", "about.html"} : static_page(c, page)
    \/ \E c \in Browser, post_id \in PostIds, submit \in BOOLEAN, form \in CommentForm :
          show_post(c, post_id, submit, form)
    \/ \E c \in Browser, submit \in BOOLEAN, form \in CreatePostForm : add_new_post(c, submit, form)
    \/ \E c \in Browser, post_id \in PostIds, submit \in BOOLEAN, form \in CreatePostForm :
          edit_post(c, post_id, submit, form)
    \/ \E c \in Browser, post \in BOOLEAN, form \in ContactForm : contact(c, post, form)
    \/ \E c \in Browser : admin_messages(c)

Next ==
    \/ Requests
    \/ \E c \in Browser, post_id \in PostIds : delete_post(c, post_id) /\ UNCHANGED deleted

Spec == Init /\ [][Next]_vars

(***************************************************************************)
(* The same requests with a history of the deletions: deleted is the set   *)
(* of identifiers of the posts that delete_post removed so far.            *)
(***************************************************************************)
delete_post_logged(c, post_id) ==
    /\ delete_post(c, post_id)
    /\ deleted' = IF posts' # posts THEN deleted \cup {post_id} ELSE deleted

HistNext ==
    \/ Requests
    \/ \E c \in Browser, post_id \in PostIds : delete_post_logged(c, post_id)

HistSpec == Init /\ [][HistNext]_vars

(***************************************************************************)
(* Concurrent registration: the SELECT of register (lines 155-159) and its *)
(* INSERT/commit (lines 161-166) are separate steps of a request, and      *)
(* requests of different browsers interleave.                              *)
(***************************************************************************)
register_check(c, form, salt) ==
    /\ pending[c] = NoReq
    /\ IF RegisterEmailTaken(users, form.email)
       THEN /\ resp' = Response(c, "register", 0, form, "Redirect", "login",
                                FlashAlreadySignedUp)
            /\ UNCHANGED pending
       ELSE /\ pending' = [pending EXCEPT ![c] = [form |-> form, salt |-> salt]]
            /\ UNCHANGED resp
    /\ UNCHANGED <<users, posts, comments, messages, session, deleted>>

register_commit(c) ==
    /\ pending[c] # NoReq
    /\ LET new_user == NewUser(users, pending[c].form, pending[c].salt)
       IN IF UserUniqueViolation(users, new_user)
          \* IntegrityError out of db.session.commit(); register does not catch it.
          THEN /\ resp' = Response(c, "register", 0, pending[c].form, "ServerError", "", "")
               /\ UNCHANGED <<users, session>>
          ELSE /\ users' = users \cup {new_user}
               /\ session' = login_user(c, new_user.id)
               /\ resp' = Response(c, "register", 0, pending[c].form, "Redirect",
                                   "get_all_posts", "")
    /\ pending' = [pending EXCEPT ![c] = NoReq]
    /\ UNCHANGED <<posts, comments, messages, deleted>>

RaceNext ==
    \/ \E c \in Clients, form \in RegisterForm, salt \in Salts : register_check(c, form, salt)
    \/ \E c \in Clients : register_commit(c)
    \/ \E c \in Clients, submit \in BOOLEAN, form \in LoginForm : login(c, submit, form)
    \/ \E c \in Clients : logout(c)

RaceSpec == Init /\ [][RaceNext]_vars

(***************************************************************************)
(* Properties.                                                             *)
(***************************************************************************)
Success(r) == r.status \in {"OK", "Redirect"}

Submitted(r) == r.form # NoForm

GatedOps == {"add_new_post", "edit_post", "delete_post", "admin_messages"}

\* C1: create post, edit post, delete post and the admin message list
\* complete successfully only for the session bound to user 1; from an
\* anonymous session or any other user each of them is answered Forbidden.
C1_AdminOnly ==
    resp.op \in GatedOps =>
        /\ Success(resp) => resp.user = AdminId
        /\ resp.user # AdminId => resp.status = "Forbidden"

\* C2: no two users share an email; a register request whose email an
\* existing user has creates no user, changes no user and is redirected
\* to login.
C2_RegisterUnique ==
    [][/\ \A u, v \in users' : u.email = v.email => u = v
       /\ (resp'.op = "register" /\ Submitted(resp') /\
           (\E u \in users : u.email = resp'.form.email))
             => /\ users' = users
                /\ resp'.status = "Redirect"
                /\ resp'.to = "login"]_vars

C2_Witness ==
    /\ resp.op = "register"
    /\ Submitted(resp)
    /\ resp.to = "login"
    /\ \E u \in users : u.email = resp.form.email /\ u.id # resp.user

C4_UniqueTitle ==
    [][/\ \A p, q \in posts' : p.title = q.title => p = q
       /\ (resp'.op \in {"add_new_post", "edit_post"} /\ Submitted(resp') /\
           (\E p \in posts : p.title = resp'.form.title /\
                             (resp'.op = "edit_post" => p.id # resp'.id)))
             => /\ ~Success(resp')
                /\ UNCHANGED store]_vars

C4_Witness ==
    /\ resp.op = "edit_post"
    /\ Submitted(resp)
    /\ resp.user # NoUser
    /\ resp.status = "ServerError"
    /\ \E p \in posts : p.title = resp.form.title /\ p.id # resp.id

\* C5 as claimed: once post p was deleted it is absent from the list of all
\* posts and its former identifier is never found again, whatever follows.
C5_DeletedNeverFound ==
    \A k \in deleted : get_or_404(posts, k) = {}

\* C5 as amended: a successful delete-post of p removes p from the list of
\* all posts and makes its identifier not found, and an identifier that is
\* not found stays not found until a create-post is assigned it.
C5_DeletedUntilReassigned ==
    [][/\ (resp'.op = "delete_post" /\ Success(resp'))
             => /\ get_or_404(posts', resp'.id) = {}
                /\ posts' \subseteq posts
       /\ \A k \in PostIds :
             (get_or_404(posts, k) = {} /\ get_or_404(posts', k) # {})
                => /\ resp'.op = "add_new_post"
                   /\ Success(resp')
                   /\ k = NextId(posts)]_vars

C5_Witness ==
    /\ resp.op = "delete_post"
    /\ Success(resp)
    /\ posts # {}
    /\ get_or_404(posts, resp.id) = {}

C7_Login ==
    [][(resp'.op = "login" /\ Submitted(resp')) =>
          LET known == {u \in users : u.email = resp'.form.email}
              valid == {u \in known :
                          u.password.digest = Pbkdf2(u.password.salt, resp'.form.password)}
          IN /\ FlashNoEmail # FlashBadPassword
             /\ valid # {} => \E u \in valid : session'[resp'.client] = u.id
             /\ valid = {}
                   => /\ resp'.status = "Redirect"
                      /\ resp'.to = "login"
                      /\ resp'.flash = IF known = {} THEN FlashNoEmail ELSE FlashBadPassword
                      /\ UNCHANGED <<store, session>>]_vars

C7_Witness ==
    /\ resp.op = "login"
    /\ resp.flash = FlashBadPassword
    /\ resp.user # NoUser

\* C8: when two register requests with the same new email both pass the
\* existence check before either commits, one user is created and the
\* loser gets the already-signed-up outcome, not an unhandled error.
C8_RaceLoserHandled ==
    /\ \A u, v \in users : u.email = v.email => u = v
    /\ (resp.op = "register" /\ Submitted(resp) /\ resp.to # "get_all_posts")
          => /\ resp.status = "Redirect"
             /\ resp.to = "login"
             /\ resp.flash = FlashAlreadySignedUp

C10_RejectionNoEffect ==
    [][/\ (resp'.op \in {"add_new_post", "delete_post", "admin_messages"} /\
           resp'.user # AdminId)
             => resp'.status = "Forbidden"
       /\ resp'.status = "Forbidden" => UNCHANGED <<store, session>>]_vars

C10_Witness ==
    /\ resp.op = "add_new_post"
    /\ resp.status = "Forbidden"
    /\ resp.user \notin {NoUser, AdminId}
    /\ posts = {}

====
